---------------------------- MODULE Spec2Model ----------------------------
(***************************************************************************)
(* The review-sentiment page of Home-Work-0502 as a state machine.         *)
(*                                                                         *)
(* The repository holds two scripts for the same page: src/app.js and      *)
(* src/unnamed/part_000.  A session runs one of them (variable page).      *)
(* Every action is one browser task: the synchronous run of a handler or   *)
(* of the continuation of an awaited promise, with everything it calls.    *)
(*                                                                         *)
(* Strings that the code inspects (review texts, labels, the token) are    *)
(* sequences of one-character strings, so that trim, toUpperCase and       *)
(* encodeURIComponent are computed.  Messages are atoms.  A score is an    *)
(* integer number of units, HalfUnits units being the score 0.5.           *)
(***************************************************************************)
EXTENDS Integers, Sequences, FiniteSets

VARIABLES
    page,              \* the script the page runs: "app.js" or "part_000"
    protocol,          \* window.location.protocol
    loadPc,            \* dataset load: boot, fetch, text, done, failed
    modelPc,           \* classifier init: boot, idle, loading, ready, failed
    reviewsData,       \* app.js reviewsData / part_000 reviews
    aiModel,           \* app.js aiModel / part_000 sentimentPipeline
    userApiKey,        \* app.js userApiKey / part_000 apiToken
    localStorage,      \* the stored token item
    dom,               \* the page elements the scripts read and write
    pendingCalls,      \* classifier promises not yet settled, with their closure
    lastSettle,        \* how the classifier promise of the last analysis settled
    effects,           \* effects of the last started analysis, in program order
    telemetryInFlight, \* logging requests not yet settled
    lastPayload,       \* body of the logging request of the last analysis
    console            \* last line the logging function wrote to the console

vars == <<page, protocol, loadPc, modelPc, reviewsData, aiModel, userApiKey,
          localStorage, dom, pendingCalls, lastSettle, effects,
          telemetryInFlight, lastPayload, console>>

---------------------------------------------------------------------------
(* Bounds *)

HalfUnits == 2
MaxRows == 2
MaxPending == 2
MaxInFlight == 1

---------------------------------------------------------------------------
(* JavaScript values *)

Undefined == [t |-> "undefined", s |-> <<>>, n |-> 0]
Null == [t |-> "null", s |-> <<>>, n |-> 0]
Str(s) == [t |-> "string", s |-> s, n |-> 0]
Num(n) == [t |-> "number", s |-> <<>>, n |-> n]

SeqsUpTo(S, n) == UNION {[1..k -> S] : k \in 0..n}

Pages == {"app.js", "part_000"}

---------------------------------------------------------------------------
(* String functions *)

Whitespace == {" ", "\t", "\r", "\n"}

RECURSIVE trimStart(_)
trimStart(s) ==
    IF s # <<>> /\ Head(s) \in Whitespace THEN trimStart(Tail(s)) ELSE s

RECURSIVE trimEnd(_)
trimEnd(s) ==
    IF s # <<>> /\ s[Len(s)] \in Whitespace
    THEN trimEnd(SubSeq(s, 1, Len(s) - 1))
    ELSE s

trim(s) == trimEnd(trimStart(s))

LowerCase == <<"a","b","c","d","e","f","g","h","i","j","k","l","m",
               "n","o","p","q","r","s","t","u","v","w","x","y","z">>
UpperCase == <<"A","B","C","D","E","F","G","H","I","J","K","L","M",
               "N","O","P","Q","R","S","T","U","V","W","X","Y","Z">>

UpperChar(c) ==
    IF \E i \in 1..Len(LowerCase) : LowerCase[i] = c
    THEN UpperCase[CHOOSE i \in 1..Len(LowerCase) : LowerCase[i] = c]
    ELSE c

\* mutant: the label is compared as it came
toUpperCase_identity(s) == s

toUpperCase(s) == [i \in 1..Len(s) |-> UpperChar(s[i])]

EncodeChar(c) ==
    CASE c = " " -> <<"%", "2", "0">>
      [] c = "\t" -> <<"%", "0", "9">>
      [] c = "\n" -> <<"%", "0", "A">>
      [] c = "\r" -> <<"%", "0", "D">>
      [] OTHER -> <<c>>

RECURSIVE encodeURIComponent(_)
encodeURIComponent(s) ==
    IF s = <<>> THEN <<>>
    ELSE EncodeChar(Head(s)) \o encodeURIComponent(Tail(s))

POSITIVE == <<"P","O","S","I","T","I","V","E">>
NEGATIVE == <<"N","E","G","A","T","I","V","E">>
NEUTRAL == <<"N","E","U","T","R","A","L">>

---------------------------------------------------------------------------
(* Inputs from the environment *)

\* row.text of the rows Papa.parse hands to complete()
FieldValues ==
    {Undefined, Str(<<>>), Str(<<" ">>), Str(<<"a">>), Str(<<" ", "b", "\r">>)}

Datasets == SeqsUpTo(FieldValues, MaxRows)

FetchErrors == {"Failed to fetch", "Load failed"}
HttpErrors == {"HTTP 404: Cannot load TSV file"}
ModelErrors == {"Failed to fetch", "Unsupported model type"}
ClassifierErrors == {"NetworkError when attempting to fetch resource.", ""}

TokenInputs == {<<>>, <<"t">>, <<" ", "t">>}
StoredTokens == {Null, Str(<<"t">>)}

MaxScore == 2 * HalfUnits

Labels == {Str(POSITIVE), Str(NEGATIVE),
           Str(<<"p","o","s","i","t","i","v","e">>),
           Str(<<"M","I","X","E","D">>), Undefined}
\* the scores at and around the threshold and at both ends of [0, 1]
ScoreValues == {0, HalfUnits - 1, HalfUnits, HalfUnits + 1, MaxScore}
Scores == {Num(n) : n \in ScoreValues} \cup {Undefined}

Prediction(l, sc) == [obj |-> TRUE, label |-> l, score |-> sc]
NullPrediction == [obj |-> FALSE, label |-> Undefined, score |-> Undefined]
Predictions == {Prediction(l, sc) : l \in Labels, sc \in Scores}

ArrayOf(items) == [kind |-> "array", items |-> items]
NoOutput == [kind |-> "undefined", items |-> <<>>]
ObjectOutput == [kind |-> "object", items |-> <<>>]

\* what the classifier promise can resolve with
Outputs ==
    {NoOutput, ObjectOutput, ArrayOf(<<>>), ArrayOf(<<NullPrediction>>)}
    \cup {ArrayOf(<<p>>) : p \in Predictions}
    \cup {ArrayOf(<<Prediction(Str(NEGATIVE), Num(MaxScore)),
                    Prediction(Str(POSITIVE), Num(0))>>)}

---------------------------------------------------------------------------
(* The page *)

NaN == [t |-> "NaN", s |-> <<>>, n |-> 0]

NoPayload == [review |-> <<>>, label |-> <<>>, conf |-> Undefined]

\* The disabled attribute of the analyze button in the markup.  app.js
\* enables the button when startup succeeds and nowhere disables it before;
\* part_000 never enables it at startup and answers early clicks itself.
InitialDisabled(p) == p = "app.js"

InitialDom(p) ==
    [btnDisabled |-> InitialDisabled(p),
     spinner |-> FALSE,
     errorShown |-> FALSE,
     errorText |-> <<>>,
     reviewText |-> <<>>,
     resultShown |-> FALSE,
     resultClass |-> "",
     resultLabel |-> <<>>,
     resultConf |-> Undefined,
     resultIcon |-> "",
     status |-> <<>>]

setStatus(d, text) == [d EXCEPT !.status = text]

displayError(d, errorText) ==
    [d EXCEPT !.errorText = errorText, !.errorShown = TRUE]

clearError(d) == [d EXCEPT !.errorShown = FALSE]

showError(d, message) ==
    [d EXCEPT !.errorText = message, !.errorShown = TRUE]

hideError(d) == [d EXCEPT !.errorShown = FALSE]

\* (x * 100).toFixed(1), in tenths of a percent
toFixed1(x) ==
    IF x.t = "number"
    THEN Num((x.n * 1000 + HalfUnits) \div (2 * HalfUnits))
    ELSE NaN

IsNetworkMessage(base) ==
    base \in {"Failed to fetch",
              "NetworkError when attempting to fetch resource."}

enrichErrorMessage(base) ==
    IF protocol = "file:" THEN <<base, "local server hint">>
    ELSE IF IsNetworkMessage(base) THEN <<base, "network hint">>
    ELSE <<base>>

Truthy(x) ==
    \/ x.t = "string" /\ x.s # <<>>
    \/ x.t = "number" /\ x.n # 0

---------------------------------------------------------------------------
(* Initial state: the page is parsed, no script has run *)

Init ==
    /\ page \in Pages
    /\ protocol \in (IF page = "app.js" THEN {"http:", "file:"} ELSE {"http:"})
    /\ loadPc = "boot"
    /\ modelPc = "boot"
    /\ reviewsData = <<>>
    /\ aiModel = "null"
    /\ userApiKey = IF page = "app.js" THEN Null ELSE Str(<<>>)
    /\ localStorage \in StoredTokens
    /\ dom = InitialDom(page)
    /\ pendingCalls = <<>>
    /\ lastSettle = [kind |-> "none", output |-> NoOutput, message |-> ""]
    /\ effects = <<>>
    /\ telemetryInFlight = 0
    /\ lastPayload = NoPayload
    /\ console = ""

---------------------------------------------------------------------------
(* Dataset rows to corpus *)

\* mutant: the filter does not trim
isValidReview_untrimmed(txt) == txt.t = "string" /\ txt.s # <<>>

\* app.js: txt && typeof txt === 'string' && txt.trim()
\* part_000: typeof text === "string" && text.trim() !== ""
isValidReview(txt) == txt.t = "string" /\ txt.s # <<>> /\ trim(txt.s) # <<>>

validReviews(data) ==
    LET kept == SelectSeq(data, isValidReview)
    IN  [i \in 1..Len(kept) |-> kept[i].s]

---------------------------------------------------------------------------
(* Startup of app.js *)

AnalysisUnchanged ==
    UNCHANGED <<pendingCalls, lastSettle, effects, telemetryInFlight,
                lastPayload, console>>

\* mutant: the catch block also re-enables the button
initializeApp_catch_enabling(d, message) ==
    [displayError(
         setStatus(d, <<"Initialization error. Check error message.">>),
         <<"Initialization error: ">> \o enrichErrorMessage(message))
        EXCEPT !.btnDisabled = FALSE]

\* the catch block of initializeApp
initializeApp_catch(d, message) ==
    displayError(
        setStatus(d, <<"Initialization error. Check error message.">>),
        <<"Initialization error: ">> \o enrichErrorMessage(message))

\* the catch block of fetchAndParseReviews, then that of initializeApp
fetchAndParseReviews_catch(d, message) ==
    initializeApp_catch(
        displayError(d, <<"Review loading failed: ">>
                        \o enrichErrorMessage(message)),
        message)

\* startApp, with initializeApp up to its first await
startApp ==
    /\ page = "app.js"
    /\ loadPc = "boot"
    /\ userApiKey' = IF Truthy(localStorage) THEN localStorage ELSE userApiKey
    /\ modelPc' = "idle"
    /\ IF protocol = "file:"
       THEN /\ dom' = displayError(
                          setStatus(dom, <<"Open via local server to start.">>),
                          <<"This app can't run from a file URL (file://)",
                            "local server hint">>)
            /\ loadPc' = "failed"
       ELSE /\ dom' = setStatus(dom, <<"Fetching review data...">>)
            /\ loadPc' = "fetch"
    /\ UNCHANGED <<page, protocol, reviewsData, aiModel, localStorage>>
    /\ AnalysisUnchanged

\* await fetch('reviews_test.tsv') settles
fetchAndParseReviews_response ==
    /\ page = "app.js"
    /\ loadPc = "fetch"
    /\ \/ /\ loadPc' = "text"
          /\ dom' = dom
       \/ /\ \E message \in FetchErrors \cup HttpErrors :
                dom' = fetchAndParseReviews_catch(dom, message)
          /\ loadPc' = "failed"
    /\ UNCHANGED <<page, protocol, modelPc, reviewsData, aiModel, userApiKey,
                   localStorage>>
    /\ AnalysisUnchanged

\* await res.text() settles and Papa.parse runs its callback; on a non-empty
\* corpus initializeApp goes on into setupSentimentModel up to its first await
fetchAndParseReviews_text ==
    /\ page = "app.js"
    /\ loadPc = "text"
    /\ \/ \E data \in Datasets :
            IF Len(validReviews(data)) = 0
            THEN /\ dom' = initializeApp_catch(
                               dom, "No valid review texts found in TSV")
                 /\ loadPc' = "failed"
                 /\ UNCHANGED <<reviewsData, modelPc>>
            ELSE /\ reviewsData' = validReviews(data)
                 /\ dom' = setStatus(dom, <<"Loading AI model (first run may take ~1 minute)...">>)
                 /\ loadPc' = "done"
                 /\ modelPc' = "loading"
       \/ /\ dom' = initializeApp_catch(dom, "Parse error: ")
          /\ loadPc' = "failed"
          /\ UNCHANGED <<reviewsData, modelPc>>
       \/ /\ \E message \in FetchErrors :
                dom' = fetchAndParseReviews_catch(dom, message)
          /\ loadPc' = "failed"
          /\ UNCHANGED <<reviewsData, modelPc>>
    /\ UNCHANGED <<page, protocol, aiModel, userApiKey, localStorage>>
    /\ AnalysisUnchanged

\* the import and the pipeline() promise of setupSentimentModel settle, and
\* initializeApp runs to its end
setupSentimentModel_settled ==
    /\ page = "app.js"
    /\ modelPc = "loading"
    /\ \/ /\ aiModel' = "pipeline"
          /\ dom' = [setStatus(dom, <<"AI model ready! Click button to analyze.">>)
                        EXCEPT !.btnDisabled = FALSE]
          /\ modelPc' = "ready"
       \/ /\ \E message \in ModelErrors :
                LET msg == <<"Model initialization failed: ">>
                           \o enrichErrorMessage(message)
                IN  dom' = initializeApp_catch(
                               displayError(setStatus(dom, msg), msg), message)
          /\ modelPc' = "failed"
          /\ aiModel' = aiModel
    /\ UNCHANGED <<page, protocol, loadPc, reviewsData, userApiKey,
                   localStorage>>
    /\ AnalysisUnchanged

\* the input listener of the token field, attached when the script loads
tokenInput_input ==
    /\ page = "app.js"
    /\ \E value \in TokenInputs :
        /\ userApiKey' = Str(trim(value))
        /\ localStorage' = IF trim(value) # <<>> THEN Str(trim(value))
                           ELSE localStorage
    /\ UNCHANGED <<page, protocol, loadPc, modelPc, reviewsData, aiModel, dom>>
    /\ AnalysisUnchanged

---------------------------------------------------------------------------
(* Startup of part_000 *)

\* the DOMContentLoaded listener: loadReviews and initSentimentModel up to
\* their first await
DOMContentLoaded ==
    /\ page = "part_000"
    /\ loadPc = "boot"
    /\ loadPc' = "fetch"
    /\ userApiKey' = IF Truthy(localStorage) THEN localStorage ELSE userApiKey
    /\ dom' = setStatus(dom, <<"Loading sentiment model...">>)
    /\ modelPc' = "loading"
    /\ UNCHANGED <<page, protocol, reviewsData, aiModel, localStorage>>
    /\ AnalysisUnchanged

\* fetch("reviews_test.tsv") settles
loadReviews_response ==
    /\ page = "part_000"
    /\ loadPc = "fetch"
    /\ \/ /\ loadPc' = "text"
          /\ dom' = dom
       \/ /\ \E message \in FetchErrors \cup {"Failed to load TSV file"} :
                dom' = showError(dom, <<"Failed to load TSV file: ", message>>)
          /\ loadPc' = "failed"
    /\ UNCHANGED <<page, protocol, modelPc, reviewsData, aiModel, userApiKey,
                   localStorage>>
    /\ AnalysisUnchanged

\* response.text() settles and Papa.parse runs its callback
loadReviews_text ==
    /\ page = "part_000"
    /\ loadPc = "text"
    /\ \/ \E data \in Datasets :
            /\ reviewsData' = validReviews(data)
            /\ dom' = dom
            /\ loadPc' = "done"
       \/ /\ dom' = showError(dom, <<"Failed to parse TSV file: ", "">>)
          /\ loadPc' = "failed"
          /\ reviewsData' = reviewsData
       \/ /\ \E message \in FetchErrors :
                dom' = showError(dom, <<"Failed to load TSV file: ", message>>)
          /\ loadPc' = "failed"
          /\ reviewsData' = reviewsData
    /\ UNCHANGED <<page, protocol, modelPc, aiModel, userApiKey, localStorage>>
    /\ AnalysisUnchanged

\* the pipeline() promise of initSentimentModel settles
initSentimentModel_settled ==
    /\ page = "part_000"
    /\ modelPc = "loading"
    /\ \/ /\ aiModel' = "pipeline"
          /\ dom' = setStatus(dom, <<"Sentiment model ready">>)
          /\ modelPc' = "ready"
       \/ /\ dom' = setStatus(
                 showError(dom, <<"Failed to load sentiment model. Please check your network connection and try again.">>),
                 <<"Model load failed">>)
          /\ modelPc' = "failed"
          /\ aiModel' = aiModel
    /\ UNCHANGED <<page, protocol, loadPc, reviewsData, userApiKey,
                   localStorage>>
    /\ AnalysisUnchanged

\* the change listener of the token field
saveApiToken ==
    /\ page = "part_000"
    /\ loadPc # "boot"
    /\ \E value \in TokenInputs :
        /\ userApiKey' = Str(trim(value))
        /\ localStorage' = IF trim(value) # <<>> THEN Str(trim(value)) ELSE Null
    /\ UNCHANGED <<page, protocol, loadPc, modelPc, reviewsData, aiModel, dom>>
    /\ AnalysisUnchanged

---------------------------------------------------------------------------
(* Categorisation *)

Threshold == HalfUnits

\* mutant: >= for >
aboveThreshold_inclusive(score) == score.t = "number" /\ score.n >= Threshold

\* score > 0.5 on a JavaScript value: false for undefined
aboveThreshold(score) == score.t = "number" /\ score.n > Threshold

\* app.js categorizeSentiment, of an object prediction
categorizeSentiment(prediction) ==
    IF prediction.label = Str(POSITIVE) /\ aboveThreshold(prediction.score)
    THEN [category |-> "positive", displayLabel |-> POSITIVE,
          confidenceScore |-> prediction.score, iconClass |-> "fa-thumbs-up"]
    ELSE IF prediction.label = Str(NEGATIVE) /\ aboveThreshold(prediction.score)
    THEN [category |-> "negative", displayLabel |-> NEGATIVE,
          confidenceScore |-> prediction.score, iconClass |-> "fa-thumbs-down"]
    ELSE [category |-> "neutral", displayLabel |-> NEUTRAL,
          confidenceScore |-> prediction.score,
          iconClass |-> "fa-question-circle"]

getSentimentIcon(sentiment) ==
    CASE sentiment = "positive" -> "fa-thumbs-up"
      [] sentiment = "negative" -> "fa-thumbs-down"
      [] OTHER -> "fa-question-circle"

\* part_000 displaySentiment, lines 171-199: sentiment, label and score of
\* result = [output], output a non-empty array
sentimentOf(output) ==
    LET sentimentData == output.items[1]
        label == IF sentimentData.label.t = "string"
                 THEN toUpperCase(sentimentData.label.s)
                 ELSE NEUTRAL
        score == IF sentimentData.score.t = "number"
                 THEN sentimentData.score
                 ELSE Num(HalfUnits)
    IN  IF ~sentimentData.obj
        THEN [sentiment |-> "neutral", label |-> NEUTRAL,
              score |-> Num(HalfUnits)]
        ELSE [sentiment |->
                  IF label = POSITIVE /\ aboveThreshold(score) THEN "positive"
                  ELSE IF label = NEGATIVE /\ aboveThreshold(score)
                  THEN "negative"
                  ELSE "neutral",
              label |-> label,
              score |-> score]

---------------------------------------------------------------------------
(* What one task of an analysis writes, threaded in program order *)

World ==
    [dom |-> dom, effects |-> effects, inFlight |-> telemetryInFlight,
     payload |-> lastPayload, console |-> console]

Commit(w) ==
    /\ dom' = w.dom
    /\ effects' = w.effects
    /\ telemetryInFlight' = w.inFlight
    /\ lastPayload' = w.payload
    /\ console' = w.console

\* app.js renderSentimentResult
renderSentimentResult(w, sentimentData) ==
    [w EXCEPT !.dom = [@ EXCEPT !.resultClass = sentimentData.category,
                                !.resultShown = TRUE,
                                !.resultIcon = sentimentData.iconClass,
                                !.resultLabel = sentimentData.displayLabel,
                                !.resultConf =
                                    toFixed1(sentimentData.confidenceScore)],
              !.effects = Append(@, "render")]

\* app.js logAnalyticsData up to its await: the request is sent
logAnalyticsData(w, reviewText, sentimentLabel, confidence) ==
    [w EXCEPT !.payload = [review |-> reviewText, label |-> sentimentLabel,
                           conf |-> confidence],
              !.inFlight = @ + 1,
              !.console = "[Analytics] Sending to Google Sheets:",
              !.effects = Append(@, "dispatch")]

\* part_000 logToGoogleSheet up to its await: the request is sent
logToGoogleSheet(w, review, label, score) ==
    [w EXCEPT !.payload = [review |-> encodeURIComponent(review),
                           label |-> label, conf |-> toFixed1(score)],
              !.inFlight = @ + 1,
              !.console = "Sending to Google Sheets:",
              !.effects = Append(@, "dispatch")]

\* part_000 displaySentiment, lines 207-211
renderSentiment(w, s) ==
    [w EXCEPT !.dom = [@ EXCEPT !.resultClass = s.sentiment,
                                !.resultShown = TRUE,
                                !.resultIcon = getSentimentIcon(s.sentiment),
                                !.resultLabel = s.label,
                                !.resultConf = toFixed1(s.score)],
              !.effects = Append(@, "render")]

\* mutant: the result is rendered and not logged
displaySentiment_noLog(w, output) ==
    renderSentiment(w, sentimentOf(output))

\* part_000 displaySentiment
displaySentiment(w, output) ==
    LET s == sentimentOf(output)
    IN  renderSentiment(
            logToGoogleSheet(w, w.dom.reviewText, s.label, s.score), s)

\* an error message put on the page by an analysis
analysisError(w, text) ==
    [w EXCEPT !.dom = displayError(@, text), !.effects = Append(@, "error")]

\* the finally blocks of performAnalysis and analyzeRandomReview
finally(w) ==
    [w EXCEPT !.dom = [@ EXCEPT !.btnDisabled = FALSE, !.spinner = FALSE]]

NotSettled == [kind |-> "none", output |-> NoOutput, message |-> ""]
Rejected(message) ==
    [kind |-> "rejected", output |-> NoOutput, message |-> message]
Resolved(output) == [kind |-> "resolved", output |-> output, message |-> ""]

StartupUnchanged ==
    UNCHANGED <<page, protocol, loadPc, modelPc, reviewsData, aiModel,
                userApiKey, localStorage>>

---------------------------------------------------------------------------
(* Analysis in app.js *)

\* the body of performAnalysis after a classifier result arrived
performAnalysis_resolved(w, chosenReview, predictions) ==
    IF predictions.kind = "undefined"
    THEN finally(analysisError(w,
             <<"Analysis error: ",
               "Cannot read properties of undefined (reading '0')">>))
    ELSE IF \/ predictions.kind # "array"
            \/ Len(predictions.items) = 0
            \/ ~predictions.items[1].obj
    THEN finally(analysisError(w,
             <<"Analysis error: ",
               "Cannot destructure property 'label' of 'prediction'">>))
    ELSE LET sentimentResult == categorizeSentiment(predictions.items[1])
         IN  finally(
                 logAnalyticsData(
                     renderSentimentResult(w, sentimentResult),
                     chosenReview,
                     sentimentResult.displayLabel,
                     sentimentResult.confidenceScore))

\* mutant: the button is not disabled
showLoadingState_enabled(d) ==
    [d EXCEPT !.spinner = TRUE, !.resultShown = FALSE]

\* performAnalysis, "UI: Show loading state"
showLoadingState(d) ==
    [d EXCEPT !.btnDisabled = TRUE, !.spinner = TRUE, !.resultShown = FALSE]

\* performAnalysis up to its await: the steps a click on an enabled button runs
performAnalysis_start(w, i) ==
    LET cleared == [w EXCEPT !.dom = clearError(@), !.effects = <<>>,
                             !.payload = NoPayload]
    IN  IF Len(reviewsData) = 0
        THEN finally([w EXCEPT !.dom = displayError(clearError(@),
                         <<"No review data loaded. Please refresh.">>)])
        ELSE LET loading ==
                     [cleared EXCEPT
                         !.dom = [showLoadingState(@)
                                     EXCEPT !.reviewText = reviewsData[i]],
                         !.effects = Append(@, "select")]
             IN  IF aiModel = "null"
                 THEN finally(analysisError(loading,
                          <<"Analysis error: ", "AI model not ready">>))
                 ELSE [loading EXCEPT !.effects = Append(@, "classify")]

\* a click on the analyze button, whose listener is attached when the script
\* loads; a disabled button dispatches no click
performAnalysis ==
    /\ page = "app.js"
    /\ Len(pendingCalls) < MaxPending
    /\ telemetryInFlight < MaxInFlight
    /\ IF dom.btnDisabled
       THEN UNCHANGED <<dom, effects, telemetryInFlight, lastPayload, console,
                        pendingCalls, lastSettle>>
       ELSE \E i \in 1..(IF Len(reviewsData) = 0 THEN 1 ELSE Len(reviewsData)) :
               /\ Commit(performAnalysis_start(World, i))
               /\ pendingCalls' =
                      IF Len(reviewsData) # 0 /\ aiModel # "null"
                      THEN Append(pendingCalls, [review |-> reviewsData[i]])
                      ELSE pendingCalls
               /\ lastSettle' =
                      IF Len(reviewsData) # 0 THEN NotSettled ELSE lastSettle
    /\ StartupUnchanged

Remove(s, k) == SubSeq(s, 1, k - 1) \o SubSeq(s, k + 1, Len(s))

\* the promise of aiModel(reviewText) settles and performAnalysis runs on
performAnalysis_settled ==
    /\ page = "app.js"
    /\ \E k \in 1..Len(pendingCalls) :
        /\ pendingCalls' = Remove(pendingCalls, k)
        /\ \/ \E predictions \in Outputs :
                /\ Commit(performAnalysis_resolved(
                              World, pendingCalls[k].review, predictions))
                /\ lastSettle' = Resolved(predictions)
           \/ \E message \in ClassifierErrors :
                /\ Commit(finally(analysisError(
                              World, <<"Analysis error: ", message>>)))
                /\ lastSettle' = Rejected(message)
    /\ StartupUnchanged

\* the fetch of logAnalyticsData settles
logAnalyticsData_settled ==
    /\ page = "app.js"
    /\ telemetryInFlight > 0
    /\ telemetryInFlight' = telemetryInFlight - 1
    /\ \/ console' = "[Analytics] Data sent successfully"
       \/ console' = "[Analytics] Logging failed:"
    /\ UNCHANGED <<dom, effects, lastPayload, pendingCalls, lastSettle>>
    /\ StartupUnchanged

---------------------------------------------------------------------------
(* Analysis in part_000 *)

\* mutant: the guard does not look at the classifier handle
analysisStarts_corpusOnly == Len(reviewsData) # 0

\* the entry guard of analyzeRandomReview lets the analysis start
analysisStarts == Len(reviewsData) # 0 /\ aiModel # "null"

\* analyzeRandomReview up to the call of the classifier
analyzeRandomReview_start(w, i) ==
    LET hidden == [w EXCEPT !.dom = hideError(@)]
    IN  IF ~analysisStarts
        THEN [hidden EXCEPT !.dom = showError(@,
                 IF Len(reviewsData) = 0
                 THEN <<"No reviews available. Please try again later.">>
                 ELSE <<"Sentiment model is not ready yet. Please wait a moment.">>)]
        ELSE [hidden EXCEPT
                 !.dom = [@ EXCEPT !.reviewText = reviewsData[i],
                                   !.spinner = TRUE,
                                   !.btnDisabled = TRUE,
                                   !.resultShown = FALSE,
                                   !.resultClass = "",
                                   !.resultIcon = "",
                                   !.resultLabel = <<>>,
                                   !.resultConf = Undefined],
                 !.effects = <<"select", "classify">>,
                 !.payload = NoPayload]

\* a click on the analyze button; a disabled button dispatches no click
analyzeRandomReview ==
    /\ page = "part_000"
    /\ loadPc # "boot"
    /\ Len(pendingCalls) < MaxPending
    /\ telemetryInFlight < MaxInFlight
    /\ IF dom.btnDisabled
       THEN UNCHANGED <<dom, effects, telemetryInFlight, lastPayload, console,
                        pendingCalls, lastSettle>>
       ELSE \E i \in 1..(IF Len(reviewsData) = 0 THEN 1 ELSE Len(reviewsData)) :
               /\ Commit(analyzeRandomReview_start(World, i))
               /\ pendingCalls' =
                      IF analysisStarts
                      THEN Append(pendingCalls, [review |-> reviewsData[i]])
                      ELSE pendingCalls
               /\ lastSettle' = IF analysisStarts THEN NotSettled ELSE lastSettle
    /\ StartupUnchanged

\* mutant: an invalid output is not reported
analyzeRandomReview_resolved_silent(w, output) ==
    IF output.kind # "array" \/ Len(output.items) = 0
    THEN finally(w)
    ELSE finally(displaySentiment(w, output))

\* analyzeSentiment after its await, then the then/catch/finally chain
analyzeRandomReview_resolved(w, output) ==
    IF output.kind # "array" \/ Len(output.items) = 0
    THEN finally([w EXCEPT
             !.dom = showError(@,
                 <<"Invalid sentiment output from local model.">>),
             !.effects = Append(@, "error")])
    ELSE finally(displaySentiment(w, output))

\* mutant: no finally block
analyzeRandomReview_rejected_noFinally(w, message) ==
    [w EXCEPT
        !.dom = showError(@,
            <<IF message # "" THEN message
              ELSE "Failed to analyze sentiment.">>),
        !.effects = Append(@, "error")]

analyzeRandomReview_rejected(w, message) ==
    finally([w EXCEPT
        !.dom = showError(@,
            <<IF message # "" THEN message
              ELSE "Failed to analyze sentiment.">>),
        !.effects = Append(@, "error")])

\* the promise of sentimentPipeline(text) settles
analyzeRandomReview_settled ==
    /\ page = "part_000"
    /\ \E k \in 1..Len(pendingCalls) :
        /\ pendingCalls' = Remove(pendingCalls, k)
        /\ \/ \E output \in Outputs :
                /\ Commit(analyzeRandomReview_resolved(World, output))
                /\ lastSettle' = Resolved(output)
           \/ \E message \in ClassifierErrors :
                /\ Commit(analyzeRandomReview_rejected(World, message))
                /\ lastSettle' = Rejected(message)
    /\ StartupUnchanged

\* mutant: a failed logging request is reported on the page
logToGoogleSheet_settled_surfacing ==
    /\ page = "part_000"
    /\ telemetryInFlight > 0
    /\ telemetryInFlight' = telemetryInFlight - 1
    /\ \/ console' = "Google Sheets response:" /\ dom' = dom
       \/ console' = "Logging failed"
            /\ dom' = showError(dom, <<"Logging failed">>)
    /\ UNCHANGED <<effects, lastPayload, pendingCalls, lastSettle>>
    /\ StartupUnchanged

\* the fetch of logToGoogleSheet, or its response.text(), settles
logToGoogleSheet_settled ==
    /\ page = "part_000"
    /\ telemetryInFlight > 0
    /\ telemetryInFlight' = telemetryInFlight - 1
    /\ \/ console' = "Google Sheets response:"
       \/ console' = "Logging failed"
    /\ UNCHANGED <<dom, effects, lastPayload, pendingCalls, lastSettle>>
    /\ StartupUnchanged

---------------------------------------------------------------------------
(* The session *)

Next ==
    \/ startApp
    \/ fetchAndParseReviews_response
    \/ fetchAndParseReviews_text
    \/ setupSentimentModel_settled
    \/ tokenInput_input
    \/ performAnalysis
    \/ performAnalysis_settled
    \/ logAnalyticsData_settled
    \/ DOMContentLoaded
    \/ loadReviews_response
    \/ loadReviews_text
    \/ initSentimentModel_settled
    \/ saveApiToken
    \/ analyzeRandomReview
    \/ analyzeRandomReview_settled
    \/ logToGoogleSheet_settled

Spec == Init /\ [][Next]_vars

---------------------------------------------------------------------------
(* Vocabulary of the properties *)

HasTop(o) == o.kind = "array" /\ Len(o.items) > 0 /\ o.items[1].obj

ResolvedWithTop == lastSettle.kind = "resolved" /\ HasTop(lastSettle.output)

Top == lastSettle.output.items[1]

Count(s, x) == Cardinality({i \in DOMAIN s : s[i] = x})

SameLetter(a, b) ==
    \/ a = b
    \/ \E i \in 1..Len(LowerCase) :
          {a, b} = {LowerCase[i], UpperCase[i]}

SameIgnoringCase(a, b) ==
    Len(a) = Len(b) /\ \A i \in 1..Len(a) : SameLetter(a[i], b[i])

Categories == {"positive", "negative", "neutral"}

---------------------------------------------------------------------------
(* C1 *)

\* C1: a classification whose score is at most 0.5 is rendered Neutral,
\* whatever its label (a string of any case, or no string at all).
C1_LowScoreIsNeutral ==
    (ResolvedWithTop /\ Top.score.t = "number" /\ Top.score.n <= Threshold)
        => dom.resultShown /\ dom.resultClass = "neutral"

\* a POSITIVE prediction of score exactly 0.5 was rendered
C1_Witness ==
    /\ ResolvedWithTop
    /\ Top.label = Str(POSITIVE)
    /\ Top.score = Num(Threshold)
    /\ dom.resultShown
    /\ dom.resultClass = "neutral"

---------------------------------------------------------------------------
(* C2 *)

\* C2 as stated: above 0.5 the category is Positive iff the label is exactly
\* POSITIVE, Negative iff it is exactly NEGATIVE, Neutral for any other label.
C2_ExactLabelDecides ==
    (ResolvedWithTop /\ Top.score.t = "number" /\ Top.score.n > Threshold)
        => /\ dom.resultShown
           /\ dom.resultClass \in Categories
           /\ dom.resultClass = "positive" <=> Top.label = Str(POSITIVE)
           /\ dom.resultClass = "negative" <=> Top.label = Str(NEGATIVE)

\* C2 amended: above 0.5 the category is Positive iff the label is POSITIVE,
\* Negative iff it is NEGATIVE and Neutral otherwise, where app.js compares
\* the label exactly and part_000 compares it ignoring case.
C2_LabelDecides ==
    (ResolvedWithTop /\ Top.score.t = "number" /\ Top.score.n > Threshold)
        => /\ dom.resultShown
           /\ dom.resultClass \in Categories
           /\ page = "app.js" =>
                /\ dom.resultClass = "positive" <=> Top.label = Str(POSITIVE)
                /\ dom.resultClass = "negative" <=> Top.label = Str(NEGATIVE)
           /\ page = "part_000" =>
                /\ dom.resultClass = "positive" <=>
                     (Top.label.t = "string"
                        /\ SameIgnoringCase(Top.label.s, POSITIVE))
                /\ dom.resultClass = "negative" <=>
                     (Top.label.t = "string"
                        /\ SameIgnoringCase(Top.label.s, NEGATIVE))

\* part_000 rendered a lower-case "positive" of score 1 as Positive
C2_Witness ==
    /\ page = "part_000"
    /\ ResolvedWithTop
    /\ Top.label = Str(<<"p","o","s","i","t","i","v","e">>)
    /\ Top.score = Num(MaxScore)
    /\ dom.resultClass = "positive"

---------------------------------------------------------------------------
(* C3 *)

\* C3: at most one classifier call is pending, the analyze control is
\* disabled while one is, and no step taken while a call is pending (a
\* trigger included) starts another call or shows another review.
C3_SingleFlight ==
    [][/\ Len(pendingCalls') <= 1
       /\ Len(pendingCalls') > 0 => dom'.btnDisabled
       /\ Len(pendingCalls) > 0 =>
            /\ Len(pendingCalls') <= Len(pendingCalls)
            /\ dom'.reviewText = dom.reviewText
            /\ Count(effects', "select") <= Count(effects, "select")
            /\ Count(effects', "classify") <= Count(effects, "classify")]_vars

\* a call is pending on a corpus of two reviews, the control disabled
C3_Witness ==
    /\ Len(pendingCalls) = 1
    /\ Len(reviewsData) = 2
    /\ dom.btnDisabled
    /\ dom.reviewText = reviewsData[2]

---------------------------------------------------------------------------
(* C4 *)

AnalyzeClick == performAnalysis \/ analyzeRandomReview

---------------------------------------------------------------------------
(* C5 *)

\* C5: when the classifier call of an analysis rejects, the error is shown,
\* the control is enabled again, nothing is rendered, no logging request is
\* sent, and corpus and classifier handle are as before and usable.
C5_RejectionRecovers ==
    [][(lastSettle'.kind = "rejected" /\ pendingCalls' # pendingCalls)
        => /\ dom'.errorShown
           /\ ~dom'.btnDisabled
           /\ ~dom'.spinner
           /\ ~dom'.resultShown
           /\ effects' = <<"select", "classify", "error">>
           /\ telemetryInFlight' = telemetryInFlight
           /\ lastPayload' = NoPayload
           /\ reviewsData' = reviewsData /\ Len(reviewsData) > 0
           /\ aiModel' = aiModel /\ aiModel # "null"
           /\ pendingCalls' = <<>>]_vars

\* a rejection with an empty message left an error on the page and the
\* control enabled
C5_Witness ==
    /\ lastSettle.kind = "rejected"
    /\ lastSettle.message = ""
    /\ dom.errorShown
    /\ ~dom.btnDisabled
    /\ ~dom.resultShown

---------------------------------------------------------------------------
(* C6 *)

Dispatched == Count(effects, "dispatch") > 0

\* C6: the task that renders a result and sends its logging request leaves
\* the control enabled, the result shown and no error; when the request
\* later succeeds or fails nothing but the console changes; and while it is
\* in flight, failed or done, result and control stay as rendered.
C6_TelemetryDecoupled ==
    [][/\ telemetryInFlight' < telemetryInFlight =>
            UNCHANGED <<dom, reviewsData, aiModel, pendingCalls, effects,
                        lastSettle, userApiKey, localStorage>>
       /\ (lastSettle'.kind = "resolved" /\ Count(effects', "dispatch") > 0)
            => /\ dom'.resultShown
               /\ ~dom'.btnDisabled
               /\ ~dom'.errorShown]_vars

\* the logging request of a rendered result failed
C6_Witness ==
    /\ console \in {"[Analytics] Logging failed:", "Logging failed"}
    /\ telemetryInFlight = 0
    /\ lastSettle.kind = "resolved"
    /\ Dispatched
    /\ dom.resultShown
    /\ ~dom.btnDisabled
    /\ ~dom.errorShown

---------------------------------------------------------------------------
(* C7 *)

ZeroRows == loadPc = "done" /\ Len(reviewsData) = 0

StartupFailed == loadPc = "failed" \/ modelPc = "failed" \/ ZeroRows

NoAnalysisEver ==
    /\ pendingCalls = <<>>
    /\ effects = <<>>
    /\ lastSettle = NotSettled
    /\ dom.reviewText = <<>>
    /\ ~dom.resultShown
    /\ telemetryInFlight = 0

---------------------------------------------------------------------------
(* C8 *)

Loaded == loadPc = "done"

\* C8 as stated: every element of a loaded corpus is non-empty and trimmed.
C8_CorpusTrimmed ==
    Loaded => \A i \in 1..Len(reviewsData) :
                 reviewsData[i] # <<>> /\ trim(reviewsData[i]) = reviewsData[i]

\* C8 amended: every element of a loaded corpus is a string with at least
\* one character that is not whitespace, stored as parsed (leading and
\* trailing whitespace kept), and nothing after the load changes the corpus.
C8_CorpusNonBlankAndFrozen ==
    [][/\ Loaded' => \A i \in 1..Len(reviewsData') :
                        \E j \in 1..Len(reviewsData'[i]) :
                            reviewsData'[i][j] \notin Whitespace
       /\ Loaded => reviewsData' = reviewsData]_vars

\* an untrimmed review sits in the corpus after an analysis and a token edit
C8_Witness ==
    /\ Loaded
    /\ Len(reviewsData) = 2
    /\ reviewsData[1] = <<" ", "b", "\r">>
    /\ lastSettle.kind = "resolved"
    /\ userApiKey = Str(<<"t">>)

---------------------------------------------------------------------------
(* C9 *)

Settled == lastSettle.kind = "resolved"

EmptyOrNoList(o) == o.kind # "array" \/ Len(o.items) = 0

LacksLabelOrScore(o) ==
    /\ ~EmptyOrNoList(o)
    /\ \/ ~o.items[1].obj
       \/ o.items[1].label.t # "string"
       \/ o.items[1].score.t # "number"

ErrorPath ==
    /\ dom.errorShown
    /\ ~dom.resultShown
    /\ ~Dispatched
    /\ lastPayload = NoPayload
    /\ ~dom.btnDisabled

RenderedNeutral ==
    /\ dom.resultShown
    /\ dom.resultClass = "neutral"
    /\ Count(effects, "dispatch") = 1
    /\ ~dom.errorShown
    /\ ~dom.btnDisabled

---------------------------------------------------------------------------
(* C10 *)

WellFormed ==
    /\ ResolvedWithTop
    /\ Top.label.t = "string"
    /\ Top.score.t = "number"

\* C10 as stated: a successful analysis sends exactly one logging request,
\* after rendering, carrying the review text selected in that analysis.
C10_RenderThenDispatch ==
    WellFormed =>
        /\ effects = <<"select", "classify", "render", "dispatch">>
        /\ lastPayload.review = dom.reviewText

\* C10 amended: a successful analysis sends exactly one logging request, in
\* the task that renders its result and for the review selected in it.
\* app.js sends it after rendering, with the review text as selected;
\* part_000 sends it just before rendering, with the review text passed
\* through encodeURIComponent.
C10_OneDispatchPerAnalysis ==
    WellFormed =>
        /\ Count(effects, "dispatch") = 1
        /\ Count(effects, "render") = 1
        /\ dom.resultShown
        /\ \E i \in 1..Len(reviewsData) : dom.reviewText = reviewsData[i]
        /\ page = "app.js" =>
             /\ effects = <<"select", "classify", "render", "dispatch">>
             /\ lastPayload.review = dom.reviewText
        /\ page = "part_000" =>
             /\ effects = <<"select", "classify", "dispatch", "render">>
             /\ lastPayload.review = encodeURIComponent(dom.reviewText)

\* part_000 logged a review with whitespace for a well-formed result
C10_Witness ==
    /\ page = "part_000"
    /\ WellFormed
    /\ dom.reviewText = <<" ", "b", "\r">>
    /\ lastPayload.review = <<"%", "2", "0", "b", "%", "0", "D">>
    /\ telemetryInFlight = 1

=============================================================================
